---------------------------- MODULE Spec2Model ----------------------------
(***************************************************************************)
(* Model of rustyxargs: the stdin Parser (src/src/parser.rs), which breaks *)
(* a byte stream into batches of arguments, and the ChildMinder            *)
(* (src/src/children.rs), which runs a bounded set of child processes.     *)
(*                                                                         *)
(* Bytes are integers 0..255, a token (OsString / Vec<u8>) is a sequence   *)
(* of bytes, a batch (Vec<OsString>) a sequence of tokens.  The handlers   *)
(* are operators from the object's state (a record holding the struct's   *)
(* fields) to its next state; each action applies one whole handler.       *)
(***************************************************************************)
EXTENDS Integers, Sequences, FiniteSets, TLC

VARIABLES
    parser,     \* the Parser's fields: args, cur_len, max_len, arg
    submitted,  \* every invocation of the Parser's action, in order: [args, ok]
    hist,       \* every call made on the Parser, in order: [op, ch, ok, nsub, self]
    minder,     \* the ChildMinder's fields: max_children, cmd, initial_args, children
    pool,       \* what has happened to the ChildMinder's children (see PoolNew)
    driver      \* main(): its arguments, its standard input, where it is, its result

vars == <<parser, submitted, hist, minder, pool, driver>>

(***************************************************************************)
(* Bounds of the model.                                                    *)
(***************************************************************************)
\* Largest max_len a Parser is built with.
MaxMaxLen == 3
\* Most calls (handle_byte and handle_eof together) made on one Parser.
MaxCalls == 6
\* Largest max_children a ChildMinder is built with.
MaxChildren == 3
\* Most spawn() calls made on one ChildMinder.
MaxSpawns == 5

\* Longest standard input main() is run on.
MaxInput == 5
\* Largest value of -s (MAX_BYTES) main() is run with.
MaxCmdLineLen == 5

\* The bytes fed to the parser: space, line feed, vertical tab (which is not
\* ASCII whitespace for Rust) and 'x'.
InputBytes == {32, 10, 11, 120}

(***************************************************************************)
(* ChildMinder (src/src/children.rs)                                       *)
(***************************************************************************)

\* The utility and its initial arguments: "e" and "-n".
Cmd == <<101>>
InitialArgs == << <<45, 110>> >>

\* The batch spawn() is called with when the ChildMinder is run alone: ["x", "\x0b"].
SpawnArgs == { << <<120>>, <<11>> >> }

ChildMinder_new(max_children, cmd, initial_args) ==
    [max_children |-> max_children, cmd |-> cmd,
     initial_args |-> initial_args, children |-> <<>>]

\* The processes as the operating system sees them, and the calls made so far:
\*   launched  how many children Command::spawn has started (their ids are 1..launched)
\*   attempts  how many times Command::spawn was called
\*   waited    the ids of the children Child::wait was called on, in order
\*   exited    the ids of the children that have exited
\*   nonzero   the ids of the children that exited with a status other than 0
\*   procs     the argument vector of each child started, in order (procs[id])
\*   oserr     whether a Child::wait or a Command::spawn call has returned Err
\*   spawns    how many times ChildMinder::spawn was called
\*   state     "alive", "dropped" (drop returned) or "panicked" (drop's unwrap failed)
\*   last      the last call on the ChildMinder: its name, its error ("none" for
\*             Ok), the call before it (prev) and the children, launched,
\*             attempts and number of waits (nwaited) it started from
PoolNew ==
    [launched |-> 0, attempts |-> 0, waited |-> <<>>, exited |-> {}, nonzero |-> {},
     procs |-> <<>>, oserr |-> FALSE, spawns |-> 0, state |-> "alive",
     last |-> [op |-> "new", err |-> "none", prev |-> "new", before |-> <<>>,
               launched |-> 0, attempts |-> 0, nwaited |-> 0]]

Ids(children) == {children[i].id : i \in 1..Len(children)}
Range(s) == {s[i] : i \in 1..Len(s)}

\* Vec::swap_remove(0): the last element takes the place of the first.
swap_remove_0(v) ==
    IF Len(v) = 1 THEN <<>> ELSE <<v[Len(v)]>> \o SubSeq(v, 2, Len(v) - 1)

\* Child::wait is called on child.
child_wait(w, child) == [w EXCEPT !.waited = Append(@, child.id)]

\* A wait that takes a status other than 0 for a failure.
wait_result_checks_status(w, child, ok) ==
    IF ok /\ child.id \notin w.nonzero THEN "none" ELSE "wait"

\* child.wait()?: ok is the outcome of the system's wait; the ExitStatus of
\* Ok(status) is not looked at.
wait_result(w, child, ok) == IF ok THEN "none" ELSE "wait"

\* A call of the system (wait, spawn) has returned Err.
os_failed(w) == [w EXCEPT !.oserr = TRUE]

\* spawn() takes the room of a child when this many are running.
is_full_off_by_one(self) == Len(self.children) > self.max_children

is_full(self) == Len(self.children) >= self.max_children

\* A launch that passes the arguments read from stdin before the initial ones.
launch_args_swapped(self, w, remaining_args, spawn_ok) ==
    LET w1 == [w EXCEPT !.attempts = @ + 1]
        child == [id |-> w.launched + 1,
                  argv |-> <<self.cmd>> \o remaining_args \o self.initial_args]
    IN  IF ~spawn_ok
        THEN [self |-> self, w |-> os_failed(w1), err |-> "spawn"]
        ELSE [self |-> [self EXCEPT !.children = Append(@, child)],
              w    |-> [w1 EXCEPT !.launched = @ + 1,
                                  !.procs = Append(@, child.argv)],
              err  |-> "none"]

\* Command::new(cmd).args(initial_args).args(remaining_args).stdin(null).spawn()
\* and the push of the child; spawn_ok is the outcome of Command::spawn.
launch(self, w, remaining_args, spawn_ok) ==
    LET w1 == [w EXCEPT !.attempts = @ + 1]
        child == [id |-> w.launched + 1,
                  argv |-> <<self.cmd>> \o self.initial_args \o remaining_args]
    IN  IF ~spawn_ok
        THEN [self |-> self, w |-> os_failed(w1), err |-> "spawn"]
        ELSE [self |-> [self EXCEPT !.children = Append(@, child)],
              w    |-> [w1 EXCEPT !.launched = @ + 1,
                                  !.procs = Append(@, child.argv)],
              err  |-> "none"]

\* A spawn() that starts the new child first and makes room afterwards.
spawn_launch_before_wait(self, w, remaining_args, wait_ok, spawn_ok) ==
    LET l == launch(self, w, remaining_args, spawn_ok)
    IN  IF l.err = "none" /\ Len(l.self.children) > self.max_children
        THEN [self |-> [l.self EXCEPT !.children = swap_remove_0(@)],
              w    |-> IF wait_ok THEN child_wait(l.w, l.self.children[1])
                       ELSE os_failed(child_wait(l.w, l.self.children[1])),
              err  |-> IF wait_ok THEN "none" ELSE "wait"]
        ELSE l

\* A spawn() that makes room by taking the last child of the vector.
spawn_evicts_last(self, w, remaining_args, wait_ok, spawn_ok) ==
    IF is_full(self)
    THEN LET child == self.children[Len(self.children)]
             self1 == [self EXCEPT !.children = SubSeq(@, 1, Len(@) - 1)]
             w1    == IF wait_ok THEN child_wait(w, child)
                      ELSE os_failed(child_wait(w, child))
         IN  IF ~wait_ok
             THEN [self |-> self1, w |-> w1, err |-> "wait"]
             ELSE launch(self1, w1, remaining_args, spawn_ok)
    ELSE launch(self, w, remaining_args, spawn_ok)

\* wait_ok is the outcome of the child.wait() that makes room.
spawn(self, w, remaining_args, wait_ok, spawn_ok) ==
    IF is_full(self)
    THEN LET child == self.children[1]
             self1 == [self EXCEPT !.children = swap_remove_0(@)]
             w1    == IF wait_ok THEN child_wait(w, child)
                      ELSE os_failed(child_wait(w, child))
         IN  IF wait_result(w, child, wait_ok) # "none"
             THEN [self |-> self1, w |-> w1, err |-> "wait"]
             ELSE launch(self1, w1, remaining_args, spawn_ok)
    ELSE launch(self, w, remaining_args, spawn_ok)

\* The loop of wait_all over the children taken from the ChildMinder: oks are
\* the outcomes of the waits; the first failure returns, and the children not
\* reached are dropped with no wait (dropping a Child does not wait).
RECURSIVE wait_each(_, _, _)
wait_each(cs, w, oks) ==
    IF cs = <<>> THEN [w |-> w, err |-> "none"]
    ELSE LET w1 == IF Head(oks) THEN child_wait(w, Head(cs))
                   ELSE os_failed(child_wait(w, Head(cs)))
         IN  IF wait_result(w, Head(cs), Head(oks)) # "none"
             THEN [w |-> w1, err |-> "wait"]
             ELSE wait_each(Tail(cs), w1, Tail(oks))

\* A wait_all that leaves in the ChildMinder the children after a failed wait.
wait_all_keeps_rest(self, w, oks) ==
    LET r == wait_each(self.children, w, oks)
        n == Len(r.w.waited) - Len(w.waited)
    IN  [self |-> [self EXCEPT !.children = SubSeq(@, n + 1, Len(@))],
         w |-> r.w, err |-> r.err]

\* A wait_all that iterates over the children and leaves them in the ChildMinder.
wait_all_no_take(self, w, oks) ==
    LET r == wait_each(self.children, w, oks)
    IN  [self |-> self, w |-> r.w, err |-> r.err]

wait_all(self, w, oks) ==
    LET r == wait_each(self.children, w, oks)
    IN  [self |-> [self EXCEPT !.children = <<>>], w |-> r.w, err |-> r.err]

\* Drop: wait_all().unwrap().
drop(self, w, oks) ==
    LET r == wait_all(self, w, oks)
    IN  [self |-> r.self,
         w    |-> [r.w EXCEPT !.state = IF r.err = "none" THEN "dropped" ELSE "panicked"],
         err  |-> r.err]

\* The waits that return Ok return after the child has exited: the call blocks
\* until then.
Returns(before, r) ==
    \A i \in (Len(before.waited) + 1)..Len(r.w.waited) :
        (i < Len(r.w.waited) \/ r.err # "wait") => r.w.waited[i] \in before.exited

\* The record of a call op made on ChildMinder self in w, which returned r.
called(op, self, w, r) ==
    [r.w EXCEPT !.spawns = IF op = "spawn" THEN @ + 1 ELSE @,
                !.last = [op |-> op, err |-> r.err, prev |-> w.last.op,
                          before |-> self.children,
                          launched |-> w.launched,
                          attempts |-> w.attempts,
                          nwaited |-> Len(w.waited)]]

PoolCall(op, r) ==
    /\ Returns(pool, r)
    /\ minder' = r.self
    /\ pool' = called(op, minder, pool, r)

WaitOutcomes == [1..Len(minder.children) -> BOOLEAN]

Spawn ==
    /\ pool.state = "alive"
    /\ pool.spawns < MaxSpawns
    /\ \E remaining_args \in SpawnArgs, wait_ok \in BOOLEAN, spawn_ok \in BOOLEAN :
          PoolCall("spawn", spawn(minder, pool, remaining_args, wait_ok, spawn_ok))
    /\ UNCHANGED <<parser, submitted, hist, driver>>

WaitAll ==
    /\ pool.state = "alive"
    /\ \E oks \in WaitOutcomes : PoolCall("wait_all", wait_all(minder, pool, oks))
    /\ UNCHANGED <<parser, submitted, hist, driver>>

Drop ==
    /\ pool.state = "alive"
    /\ \E oks \in WaitOutcomes : PoolCall("drop", drop(minder, pool, oks))
    /\ UNCHANGED <<parser, submitted, hist, driver>>

\* The exit statuses of the children.
ExitCodes == {0, 1}

\* A running child exits.
ChildExit ==
    /\ \E id \in (1..pool.launched) \ pool.exited, code \in ExitCodes :
          pool' = [pool EXCEPT !.exited = @ \cup {id},
                               !.nonzero = IF code # 0 THEN @ \cup {id} ELSE @]
    /\ UNCHANGED <<parser, submitted, hist, minder, driver>>

(***************************************************************************)
(* Parser (src/src/parser.rs)                                              *)
(***************************************************************************)

\* u8::is_ascii_whitespace: space, tab, line feed, form feed, carriage return.
is_ascii_whitespace(ch) == ch \in {32, 9, 10, 12, 13}

Parser_new(max_len) ==
    [max_len |-> max_len, args |-> <<>>, cur_len |-> 0, arg |-> <<>>]

\* The closure of main(), |args| minder.spawn(args): env.minder and env.w are
\* the ChildMinder it borrows and the children, env.calls the invocations so
\* far, env.oracle the outcomes of the coming waits and launches.
main_closure(env, args) ==
    LET closure(e) ==
            LET o == Head(e.oracle)
                r == spawn(e.minder, e.w, args, o.wait_ok, o.spawn_ok)
            IN  [env |-> [minder |-> r.self,
                          w      |-> called("spawn", e.minder, e.w, r),
                          calls  |-> Append(e.calls, [args |-> args, ok |-> r.err = "none"]),
                          oracle |-> Tail(e.oracle)],
                 ok  |-> r.err = "none"]
    IN  \* the value of env is computed once
        CHOOSE returned \in {closure(e) : e \in {env}} : TRUE

\* The closure of a Parser.  Run alone, its outcome is one the caller does not
\* control: env.calls are the invocations so far, env.oracle the outcomes of
\* the coming ones.  In main() it is main_closure.
action(env, args) ==
    IF "minder" \in DOMAIN env
    THEN main_closure(env, args)
    ELSE LET ok == Head(env.oracle)
         IN  [env |-> [calls  |-> Append(env.calls, [args |-> args, ok |-> ok]),
                       oracle |-> Tail(env.oracle)],
              ok  |-> ok]

\* The test without the separator's byte.
is_break_down_needed_no_separator(self) ==
    self.cur_len + Len(self.arg) > self.max_len

is_break_down_needed(self) ==
    LET separator_len == IF self.args # <<>> THEN 1 ELSE 0
    IN  self.cur_len + separator_len + Len(self.arg) > self.max_len

\* An append that does not count the separator.
append_arg_no_separator(self) ==
    [self EXCEPT !.cur_len = @ + Len(self.arg),
                 !.args    = Append(@, self.arg),
                 !.arg     = <<>>]

append_arg(self) ==
    LET sep == IF self.args # <<>> THEN 1 ELSE 0
    IN  [self EXCEPT !.cur_len = @ + sep + Len(self.arg),
                     !.args    = Append(@, self.arg),
                     !.arg     = <<>>]

\* A flush that forgets args.clear().
clear_args_keeps_args(self) == [self EXCEPT !.cur_len = 0]

\* The state after a successful flush: args.clear(); cur_len = 0.
clear_args(self) == [self EXCEPT !.args = <<>>, !.cur_len = 0]

\* Lines 70-73 of handle_space: append the argument being parsed, if any.
finish_arg(self) == IF self.arg # <<>> THEN append_arg(self) ELSE self

\* Returns the parser, the closure's environment and the Result (ok).  The `?`
\* after the action returns at once, before the batch is cleared.
handle_space(self, env) ==
    IF is_break_down_needed(self)
    THEN LET r == action(env, self.args)
         IN  IF ~r.ok
             THEN [self |-> self, env |-> r.env, ok |-> FALSE]
             ELSE [self |-> finish_arg(clear_args(self)), env |-> r.env, ok |-> TRUE]
    ELSE [self |-> finish_arg(self), env |-> env, ok |-> TRUE]

handle_byte(self, env, ch) ==
    IF is_ascii_whitespace(ch)
    THEN handle_space(self, env)
    ELSE [self |-> [self EXCEPT !.arg = Append(@, ch)], env |-> env, ok |-> TRUE]

handle_eof(self, env) ==
    LET s == handle_space(self, env)
    IN  IF ~s.ok
        THEN s
        ELSE IF s.self.args # <<>>
             THEN LET r == action(s.env, s.self.args)
                  IN  [self |-> s.self, env |-> r.env, ok |-> r.ok]
             ELSE s

\* The outcomes of the (at most two) action invocations of one call.
Oracles == [1..2 -> BOOLEAN]

\* The record of a call: its name, its byte, its Result, the number of times it
\* invoked the action and the Parser it was made on.
Called(op, ch, self, calls, r) ==
    [op |-> op, ch |-> ch, ok |-> r.ok, nsub |-> Len(r.env.calls) - Len(calls),
     self |-> self]

Call(op, ch, r) ==
    /\ parser' = r.self
    /\ submitted' = r.env.calls
    /\ hist' = Append(hist, Called(op, ch, parser, submitted, r))

HandleByte ==
    /\ Len(hist) < MaxCalls
    /\ \E ch \in InputBytes, o \in Oracles :
          Call("byte", ch, handle_byte(parser, [calls |-> submitted, oracle |-> o], ch))
    /\ UNCHANGED <<minder, pool, driver>>

HandleEof ==
    /\ Len(hist) < MaxCalls
    /\ \E o \in Oracles :
          Call("eof", 0, handle_eof(parser, [calls |-> submitted, oracle |-> o]))
    /\ UNCHANGED <<minder, pool, driver>>

(***************************************************************************)
(* main (src/src/main.rs)                                                 *)
(***************************************************************************)

\* The bytes of the standard input: space, vertical tab and 'x'.
StdinBytes == {32, 11, 120}

RECURSIVE SeqsUpTo(_, _)
SeqsUpTo(S, n) ==
    IF n = 0 THEN {<<>>}
    ELSE LET shorter == SeqsUpTo(S, n - 1)
         IN  shorter \cup {Append(q, b) : q \in shorter, b \in S}

\* CMD and INITIAL_ARGS of the command line: "x", with no argument, with "y",
\* or with "y" and "z".
Cmds == { <<120>> }
InitialArgsChoices == { <<>>, << <<121>> >>, << <<121>>, <<122>> >> }

\* A fold that forgets the separator of each argument.
RECURSIVE initial_cmd_line_len_no_separator(_, _)
initial_cmd_line_len_no_separator(cmd, args) ==
    IF args = <<>> THEN Len(cmd)
    ELSE initial_cmd_line_len_no_separator(cmd, SubSeq(args, 1, Len(args) - 1))
             + Len(args[Len(args)])

\* args.into_iter().fold(cmd.len(), |acc, i| acc + i.len() + 1)
RECURSIVE initial_cmd_line_len(_, _)
initial_cmd_line_len(cmd, args) ==
    IF args = <<>> THEN Len(cmd)
    ELSE initial_cmd_line_len(cmd, SubSeq(args, 1, Len(args) - 1))
             + Len(args[Len(args)]) + 1

\* main() before it has looked at its arguments:
\*   pc      "args" (lines 35-72), "read" (the loop, 74-80), "eof" (82),
\*           "wait_all" (84), "return" (86 and the drop of minder), "exited"
\*   result  what main() returns: "none" (not yet), "ok", or the error:
\*           "config" (bail!), "read" (stdin), "spawn" (from the parser), "wait"
\*   exit    "running", "ok" (main returned Ok), "error" (main returned Err),
\*           "panic" (the drop of minder panicked)
Main_new(cmd, initial_args, max_cmd_line_len, stdin) ==
    [pc |-> "args", cmd |-> cmd, initial_args |-> initial_args,
     max_cmd_line_len |-> max_cmd_line_len, stdin |-> stdin,
     result |-> "none", exit |-> "running"]

\* No main() is running.
NoMain == [Main_new(Cmd, InitialArgs, 0, <<>>) EXCEPT !.pc = "exited", !.exit = "ok"]

\* Lines 56-72: the length left to the arguments read from stdin, the bail-out
\* and the construction of the ChildMinder and of the Parser.
Main_Args ==
    /\ driver.pc = "args"
    /\ LET max_remaining_args_len ==
               driver.max_cmd_line_len
                   - initial_cmd_line_len(driver.cmd, driver.initial_args) - 1
       IN  IF max_remaining_args_len < 1
           THEN /\ driver' = [driver EXCEPT !.pc = "exited", !.result = "config",
                                            !.exit = "error"]
                /\ UNCHANGED <<parser, minder>>
           ELSE /\ driver' = [driver EXCEPT !.pc = "read"]
                /\ minder' = ChildMinder_new(1, driver.cmd, driver.initial_args)
                /\ parser' = Parser_new(max_remaining_args_len)
    /\ UNCHANGED <<submitted, hist, pool>>

\* The outcomes of the wait and of the launch of each of the (at most two)
\* spawn() calls of one call on the parser.
SpawnOracles == [1..2 -> [wait_ok : BOOLEAN, spawn_ok : BOOLEAN]]
SpawnOraclesOk == [1..2 -> [wait_ok : {TRUE}, spawn_ok : {TRUE}]]

MainEnv(o) == [minder |-> minder, w |-> pool, calls |-> submitted, oracle |-> o]

\* The children launched and then waited on, the wait returning Ok, within one
\* call on the parser that left the children as w: the call was blocked until
\* they exited.
ExitedInCall(w) ==
    {w.waited[i] : i \in {j \in (Len(pool.waited) + 1)..Len(w.waited) :
                              /\ w.waited[j] > pool.launched
                              /\ (j < Len(w.waited) \/ w.last.err # "wait")}}

\* A call on the parser made by main(), which goes on at pc next if it returns Ok.
MainCall(op, ch, r, next) ==
    LET w == r.env.w
        during == ExitedInCall(w)
    IN  /\ Returns([pool EXCEPT !.exited = @ \cup during], [w |-> w, err |-> w.last.err])
        /\ parser' = r.self
        /\ minder' = r.env.minder
        /\ \E nonzero \in SUBSET during :
               pool' = [w EXCEPT !.exited = @ \cup during, !.nonzero = @ \cup nonzero]
        /\ submitted' = r.env.calls
        /\ hist' = Append(hist, Called(op, ch, parser, submitted, r))
        /\ driver' = IF r.ok
                     THEN [driver EXCEPT !.pc = next,
                                         !.stdin = IF op = "byte" THEN Tail(@) ELSE @]
                     ELSE [driver EXCEPT !.pc = "return", !.result = w.last.err]

\* Lines 75-79, stdin.read returning Ok(1): handle_byte(buf[0])?.
ReadByte(O) ==
    /\ driver.pc = "read"
    /\ driver.stdin # <<>>
    /\ \E o \in O :
          \E r \in {handle_byte(parser, MainEnv(o), Head(driver.stdin))} :
             MainCall("byte", Head(driver.stdin), r, "read")

\* Line 76, stdin.read returning Ok(0): break.
ReadEnd ==
    /\ driver.pc = "read"
    /\ driver.stdin = <<>>
    /\ driver' = [driver EXCEPT !.pc = "eof"]
    /\ UNCHANGED <<parser, submitted, hist, minder, pool>>

\* Line 78, stdin.read returning Err.
ReadErr ==
    /\ driver.pc = "read"
    /\ driver' = [driver EXCEPT !.pc = "return", !.result = "read"]
    /\ UNCHANGED <<parser, submitted, hist, minder, pool>>

\* Line 82: parser.handle_eof()?.
Eof(O) ==
    /\ driver.pc = "eof"
    /\ \E o \in O :
          \E r \in {handle_eof(parser, MainEnv(o))} : MainCall("eof", 0, r, "wait_all")

\* Line 84: minder.wait_all()?.
MainWaitAll(W) ==
    /\ driver.pc = "wait_all"
    /\ \E oks \in W :
          LET r == wait_all(minder, pool, oks)
          IN  /\ PoolCall("wait_all", r)
              /\ driver' = [driver EXCEPT !.pc = "return",
                                          !.result = IF r.err = "none" THEN "ok" ELSE r.err]
    /\ UNCHANGED <<parser, submitted, hist>>

\* Line 86 or an early return: minder is dropped, then main() returns.
Return(W) ==
    /\ driver.pc = "return"
    /\ \E oks \in W :
          LET r == drop(minder, pool, oks)
          IN  /\ PoolCall("drop", r)
              /\ driver' = [driver EXCEPT
                     !.pc = "exited",
                     !.exit = IF r.err # "none" THEN "panic"
                              ELSE IF driver.result = "ok" THEN "ok" ELSE "error"]
    /\ UNCHANGED <<parser, submitted, hist>>

WaitOutcomesOk == [1..Len(minder.children) -> {TRUE}]

Main_Read == ReadByte(SpawnOracles) \/ ReadEnd \/ ReadErr
Main_Eof == Eof(SpawnOracles)
Main_WaitAll == MainWaitAll(WaitOutcomes)
Main_Return == Return(WaitOutcomes)

\* The steps of main() in which no call of the system returns Err.
MainOk ==
    \/ Main_Args
    \/ ReadByte(SpawnOraclesOk) \/ ReadEnd
    \/ Eof(SpawnOraclesOk)
    \/ MainWaitAll(WaitOutcomesOk)
    \/ Return(WaitOutcomesOk)

(***************************************************************************)
(* Specifications                                                          *)
(***************************************************************************)
InitParser ==
    /\ parser \in {Parser_new(m) : m \in 1..MaxMaxLen}
    /\ submitted = <<>>
    /\ hist = <<>>

\* The Parser alone, under any sequence of calls, its action failing at will;
\* the ChildMinder is the one main() builds.
Init ==
    /\ InitParser
    /\ minder = ChildMinder_new(1, Cmd, InitialArgs)
    /\ pool = PoolNew
    /\ driver = NoMain

Next == HandleByte \/ HandleEof

Spec == Init /\ [][Next]_vars

\* The ChildMinder alone, under any sequence of calls, waits and launches
\* failing at will.
InitPool ==
    /\ parser = Parser_new(1)
    /\ submitted = <<>>
    /\ hist = <<>>
    /\ minder \in {ChildMinder_new(n, Cmd, InitialArgs) : n \in 1..MaxChildren}
    /\ pool = PoolNew
    /\ driver = NoMain

NextPool == Spawn \/ WaitAll \/ Drop \/ ChildExit

SpecPool == InitPool /\ [][NextPool]_vars

\* main(), on any command line and standard input within the bounds, reads,
\* waits and launches failing at will, the children exiting when they please.
\* The Parser and the ChildMinder are built by Main_Args.
InitMain ==
    /\ parser = Parser_new(1)
    /\ submitted = <<>>
    /\ hist = <<>>
    /\ minder = ChildMinder_new(1, Cmd, InitialArgs)
    /\ pool = PoolNew
    /\ driver \in {Main_new(c, a, m, in) : c \in Cmds, a \in InitialArgsChoices,
                                          m \in 0..MaxCmdLineLen,
                                          in \in SeqsUpTo(StdinBytes, MaxInput)}

NextMain == Main_Args \/ Main_Read \/ Main_Eof \/ Main_WaitAll \/ Main_Return \/ ChildExit

SpecMain == InitMain /\ [][NextMain]_vars

\* main() goes on when it can, and a running child exits in the end.
FairSpecMain ==
    /\ SpecMain
    /\ WF_vars(MainOk)
    /\ WF_vars(ChildExit)

(***************************************************************************)
(* Properties of the Parser                                                *)
(***************************************************************************)
\* The bytes passed to handle_byte so far, in order.
RECURSIVE BytesOf(_)
BytesOf(h) ==
    IF h = <<>> THEN <<>>
    ELSE (IF Head(h).op = "byte" THEN <<Head(h).ch>> ELSE <<>>) \o BytesOf(Tail(h))

Input == BytesOf(hist)

\* The maximal runs of non-whitespace bytes of s from position i on.
RunEnd(s, i) ==
    CHOOSE j \in i..Len(s) :
        /\ \A k \in i..j : ~is_ascii_whitespace(s[k])
        /\ j = Len(s) \/ is_ascii_whitespace(s[j + 1])

RECURSIVE RunsFrom(_, _)
RunsFrom(s, i) ==
    IF i > Len(s) THEN <<>>
    ELSE IF is_ascii_whitespace(s[i]) THEN RunsFrom(s, i + 1)
    ELSE <<SubSeq(s, i, RunEnd(s, i))>> \o RunsFrom(s, RunEnd(s, i) + 1)

Runs(s) == RunsFrom(s, 1)

\* The tokens of all the batches passed to the action, in order.
RECURSIVE Flatten(_)
Flatten(calls) ==
    IF calls = <<>> THEN <<>> ELSE Head(calls).args \o Flatten(Tail(calls))

RECURSIVE SumLen(_)
SumLen(batch) == IF batch = <<>> THEN 0 ELSE Len(Head(batch)) + SumLen(Tail(batch))

\* Sum of the tokens' lengths plus one per adjacent pair.
AccountedSize(batch) ==
    SumLen(batch) + (IF Len(batch) > 1 THEN Len(batch) - 1 ELSE 0)

NoFailure == \A i \in 1..Len(submitted) : submitted[i].ok

\* The driver's run: handle_byte on each byte, then exactly one handle_eof.
DriverRunDone ==
    /\ hist # <<>>
    /\ hist[Len(hist)].op = "eof"
    /\ \A i \in 1..(Len(hist) - 1) : hist[i].op = "byte"
    /\ \A i \in 1..Len(hist) : hist[i].ok

\* C1: after handle_byte on each byte and one handle_eof, with no submission
\* failing, the tokens of the submitted batches, concatenated in order, are the
\* maximal runs of non-whitespace bytes of the input.
C1_TokensPreserved ==
    (DriverRunDone /\ NoFailure) => Flatten(submitted) = Runs(Input)

\* A run that submitted two batches, one of them holding two tokens.
C1_Witness ==
    /\ DriverRunDone /\ NoFailure
    /\ Len(submitted) = 2
    /\ \E i \in 1..2 : Len(submitted[i].args) = 2

OversizedAlone(batch) == Len(batch) = 1 /\ Len(batch[1]) > parser.max_len

\* C2: every batch passed to the action has accounted size at most max_len,
\* unless it is exactly one token that is itself longer than max_len.
C2_BatchWithinMaxLen ==
    \A i \in 1..Len(submitted) :
        \/ AccountedSize(submitted[i].args) <= parser.max_len
        \/ OversizedAlone(submitted[i].args)

\* A batch of two tokens that fills max_len exactly was submitted.
C2_Witness ==
    \E i \in 1..Len(submitted) :
        /\ Len(submitted[i].args) = 2
        /\ AccountedSize(submitted[i].args) = parser.max_len

\* C3: the action is never invoked with an empty batch.
C3_NoEmptyBatch ==
    \A i \in 1..Len(submitted) : submitted[i].args # <<>>

\* C4: a handle_eof made directly after a handle_eof that returned Ok invokes
\* the action no more.
C4_EofIdempotent ==
    \A i \in 2..Len(hist) :
        (hist[i].op = "eof" /\ hist[i - 1].op = "eof" /\ hist[i - 1].ok)
            => hist[i].nsub = 0

\* C8: after a handle_byte whose flush failed, the Parser no longer holds the
\* batch it was flushing.
C8_FailedBatchHandedOff ==
    (hist # <<>> /\ hist[Len(hist)].op = "byte" /\ ~hist[Len(hist)].ok)
        => parser.args = <<>>


\* The driver's run so far: handle_byte on each byte, then handle_eof at most
\* once, no call failing.
DriverRun ==
    /\ \A i \in 1..(Len(hist) - 1) : hist[i].op = "byte"
    /\ \A i \in 1..Len(hist) : hist[i].ok

\* C13: in the driver's run with no failing submission, of two batches
\* submitted one after the other the first could not take the first token of
\* the second.
C13_Greedy ==
    (DriverRun /\ NoFailure) =>
        \A i \in 1..(Len(submitted) - 1) :
            /\ submitted[i + 1].args # <<>>
            /\ AccountedSize(submitted[i].args) + 1 + Len(submitted[i + 1].args[1])
                   > parser.max_len

\* C16: cur_len is the accounted size of args.
C16_CurLenIsAccountedSize == parser.cur_len = AccountedSize(parser.args)

\* The Parser holds two tokens after a call whose submission failed.
C16_Witness ==
    /\ Len(parser.args) = 2
    /\ parser.cur_len = 3
    /\ \E i \in 1..Len(hist) : ~hist[i].ok

\* The Parser after the i-th call.
After(i) == IF i = Len(hist) THEN parser ELSE hist[i + 1].self

\* The i-th call is handle_byte on a whitespace byte, no token being parsed.
BareSpace(i) ==
    /\ hist[i].op = "byte"
    /\ is_ascii_whitespace(hist[i].ch)
    /\ hist[i].self.arg = <<>>

\* The batch of the Parser the i-th call is made on is not empty and fills
\* max_len or more.
BatchIsFull(i) ==
    /\ hist[i].self.args # <<>>
    /\ AccountedSize(hist[i].self.args) >= hist[i].self.max_len

SameBatch(p, q) == p.args = q.args /\ p.cur_len = q.cur_len

\* C18: handle_byte on a whitespace byte, no token being parsed, invokes the
\* action no time and leaves args and cur_len as they are; handle_byte invokes
\* the action only when a token is being parsed.
C18_BareSpaceDoesNothing ==
    \A i \in 1..Len(hist) :
        /\ BareSpace(i) => (hist[i].nsub = 0 /\ SameBatch(After(i), hist[i].self))
        /\ (hist[i].op = "byte" /\ hist[i].nsub > 0) => hist[i].self.arg # <<>>

\* C18, amended: handle_byte on a whitespace byte, no token being parsed,
\* invokes the action no time and leaves args and cur_len as they are, unless
\* the batch is not empty and fills max_len or more: then it submits the batch,
\* and clears it if the submission succeeds.  handle_byte invokes the action
\* only on a whitespace byte, when the batch, a separator if the batch is not
\* empty, and the token being parsed exceed max_len.
C18_BareSpaceFlushesFullBatch ==
    \A i \in 1..Len(hist) :
        LET p == hist[i].self
            sep == IF p.args # <<>> THEN 1 ELSE 0
        IN  /\ (BareSpace(i) /\ ~BatchIsFull(i)) =>
                   (hist[i].nsub = 0 /\ SameBatch(After(i), p))
            /\ (BareSpace(i) /\ BatchIsFull(i)) =>
                   /\ hist[i].nsub = 1
                   /\ IF hist[i].ok
                      THEN After(i).args = <<>> /\ After(i).cur_len = 0
                      ELSE SameBatch(After(i), p)
            /\ (hist[i].op = "byte" /\ hist[i].nsub > 0) =>
                   /\ is_ascii_whitespace(hist[i].ch)
                   /\ AccountedSize(p.args) + sep + Len(p.arg) > p.max_len

\* A whitespace byte that followed a whitespace byte has flushed a batch of
\* two tokens.
C18_Witness ==
    \E i \in 1..Len(hist) :
        /\ BareSpace(i) /\ BatchIsFull(i)
        /\ Len(hist[i].self.args) = 2
        /\ hist[i].nsub = 1 /\ hist[i].ok
        /\ After(i).args = <<>>

(***************************************************************************)
(* Properties of the ChildMinder                                           *)
(***************************************************************************)
\* C5: the number of running children never exceeds max_children.
C5_AtMostMaxChildren == Len(minder.children) <= minder.max_children

\* A spawn() on a full ChildMinder of two or more children has returned Ok.
C5_Witness ==
    /\ minder.max_children >= 2
    /\ pool.last.op = "spawn" /\ pool.last.err = "none"
    /\ Len(pool.last.before) = minder.max_children
    /\ Len(minder.children) = minder.max_children

\* C6: a launched child that is no longer among the children has been waited on.
C6_NoChildLeavesUnwaited ==
    \A id \in 1..pool.launched : id \in Ids(minder.children) \/ id \in Range(pool.waited)

\* C7: when wait_all has returned, a wait has been made on every child that was
\* running when it was called, whatever the waits returned.
C7_WaitAllWaitsOnEveryChild ==
    pool.last.op = "wait_all" => Ids(pool.last.before) \subseteq Range(pool.waited)

\* C9: after a spawn() that failed, no child is running that was not before;
\* and if it was the wait that failed, Command::spawn was not called.
C9_FailedSpawnAddsNoChild ==
    (pool.last.op = "spawn" /\ pool.last.err # "none") =>
        /\ Ids(minder.children) \subseteq Ids(pool.last.before)
        /\ pool.launched = pool.last.launched
        /\ pool.last.err = "wait" => pool.attempts = pool.last.attempts

\* A spawn() on a full ChildMinder has failed in its wait.
C9_Witness ==
    /\ pool.last.op = "spawn" /\ pool.last.err = "wait"
    /\ Len(pool.last.before) = minder.max_children
    /\ minder.max_children >= 2

\* C10: when wait_all has returned, Ok or not, no child is left running in the
\* ChildMinder.
C10_EmptyAfterWaitAll ==
    pool.last.op = "wait_all" => minder.children = <<>>

\* wait_all has failed on a full ChildMinder before its last child.
C10_Witness ==
    /\ pool.last.op = "wait_all" /\ pool.last.err = "wait"
    /\ Len(pool.last.before) = minder.max_children
    /\ minder.max_children >= 2
    /\ ~(Ids(pool.last.before) \subseteq Range(pool.waited))


\* The last call was a spawn() on a ChildMinder that was full.
SpawnedWhenFull ==
    pool.last.op = "spawn" /\ Len(pool.last.before) >= minder.max_children

\* The child the last call waited on first.
FirstWaited == pool.waited[pool.last.nwaited + 1]

\* C11: a spawn() on a full ChildMinder calls Command::spawn only after its
\* wait on a child that was running has returned, that child having exited.
C11_LaunchAfterWaitReturned ==
    (SpawnedWhenFull /\ pool.attempts > pool.last.attempts) =>
        /\ Len(pool.waited) > pool.last.nwaited
        /\ FirstWaited \in Ids(pool.last.before)
        /\ FirstWaited \in pool.exited

\* With max_children = 1, a second child was started by a spawn() that found
\* the first one running in the ChildMinder.
C11_Witness ==
    /\ minder.max_children = 1
    /\ SpawnedWhenFull /\ pool.last.err = "none"
    /\ pool.launched = 2
    /\ pool.waited = <<1>>

\* The oldest of the children: the one started first.
Oldest(children) == CHOOSE id \in Ids(children) : \A other \in Ids(children) : id <= other

C19_NoChildWaitedTwice ==
    /\ \A i, j \in 1..Len(pool.waited) : i # j => pool.waited[i] # pool.waited[j]
    /\ (pool.last.op = "drop" /\ pool.last.prev = "wait_all") =>
           Len(pool.waited) = pool.last.nwaited

\* The ChildMinder was dropped right after a wait_all that had waited on
\* children, one of them already waited on by a spawn().
C19_Witness ==
    /\ pool.last.op = "drop" /\ pool.last.prev = "wait_all"
    /\ pool.state = "dropped"
    /\ Len(pool.waited) >= 3
    /\ pool.launched = Len(pool.waited)


(***************************************************************************)
(* Properties of main()                                                    *)
(***************************************************************************)
\* No read, wait or launch has failed, and the command line was accepted.
NoFailureInMain ==
    /\ ~pool.oserr
    /\ driver.result \in {"none", "ok"}

\* C12: in a run of main() with no failure, the k-th process started has for
\* arguments CMD, the initial arguments, then the tokens of the k-th batch
\* submitted, and the batches hold the tokens of the input in order.
C12_LaunchedInSubmissionOrder ==
    (driver.pc # "args" /\ NoFailureInMain) =>
        /\ Len(pool.procs) = Len(submitted)
        /\ \A k \in 1..Len(submitted) :
              pool.procs[k] = <<driver.cmd>> \o driver.initial_args \o submitted[k].args
        /\ driver.pc \in {"wait_all", "return", "exited"} =>
              Flatten(submitted) = Runs(Input)

\* main() has returned Ok after starting "x y" on one token, then on another.
C12_Witness ==
    /\ driver.exit = "ok"
    /\ driver.initial_args = << <<121>> >>
    /\ Len(pool.procs) = 2
    /\ pool.procs[1] # pool.procs[2]

RECURSIVE SumLenPlusOne(_)
SumLenPlusOne(args) ==
    IF args = <<>> THEN 0 ELSE Len(Head(args)) + 1 + SumLenPlusOne(Tail(args))

\* MAX_BYTES less the length of CMD and of the initial arguments, less 1.
MaxLenOfCommandLine ==
    driver.max_cmd_line_len - (Len(driver.cmd) + SumLenPlusOne(driver.initial_args)) - 1

\* C14: once main() has looked at its arguments, the Parser's max_len is
\* MAX_BYTES - (len(CMD) + sum of len(arg) + 1) - 1 if that is 1 or more;
\* if not, main() has returned the configuration error, having read no byte
\* and started no process.
C14_MaxLenOrConfigError ==
    driver.pc # "args" =>
        IF MaxLenOfCommandLine < 1
        THEN /\ driver.pc = "exited" /\ driver.exit = "error"
             /\ driver.result = "config"
             /\ hist = <<>> /\ submitted = <<>>
             /\ pool.attempts = 0 /\ pool.launched = 0
        ELSE /\ parser.max_len = MaxLenOfCommandLine
             /\ driver.result # "config"

\* "x y z" with MAX_BYTES too small by one was refused.
C14_Witness ==
    /\ driver.cmd = <<120>>
    /\ driver.initial_args = << <<121>>, <<122>> >>
    /\ driver.max_cmd_line_len = MaxCmdLineLen
    /\ driver.stdin # <<>>
    /\ driver.result = "config"

\* C15: as long as no wait and no launch has failed, the last call on the
\* ChildMinder and every submission returned Ok, whatever the statuses the
\* children exited with, and main(), unless a read failed or the command
\* line was refused, returns Ok.
C15_ExitStatusIgnored ==
    ~pool.oserr =>
        /\ pool.last.err = "none"
        /\ \A i \in 1..Len(submitted) : submitted[i].ok
        /\ (driver.pc = "exited" /\ driver.result \notin {"config", "read"}) =>
               driver.exit = "ok"

\* main() has returned Ok though two children exited with a status other than
\* 0, the first waited on by spawn(), the second by wait_all().
C15_Witness ==
    /\ driver.exit = "ok"
    /\ pool.waited = <<1, 2>>
    /\ pool.nonzero = {1, 2}

\* main() cannot go on unless a call of the system fails: it is blocked.
Blocked == driver.pc # "exited" /\ ~ENABLED MainOk

\* C20: main() returns in the end; if no read, wait or launch has failed it
\* returns Ok with no child left in the ChildMinder, every child started
\* having exited and been waited on; and as long as none has failed it is
\* blocked only in a spawn() on a full ChildMinder (from handle_byte or
\* handle_eof) or in wait_all().
C20_Terminates ==
    /\ <>(driver.pc = "exited")
    /\ []((driver.pc = "exited" /\ ~pool.oserr /\ driver.result = "ok") =>
              /\ driver.exit = "ok"
              /\ minder.children = <<>>
              /\ Range(pool.waited) = 1..pool.launched
              /\ pool.exited = 1..pool.launched)
    /\ []((Blocked /\ NoFailureInMain) =>
              \/ driver.pc = "wait_all" /\ minder.children # <<>>
              \/ driver.pc \in {"read", "eof"} /\ is_full(minder))

\* main() is blocked in a spawn() made by handle_byte, its child running.
C20_Witness ==
    /\ Blocked /\ NoFailureInMain
    /\ driver.pc = "read"
    /\ Len(driver.stdin) >= 2

=============================================================================
